---- MODULE Spec2Model ----
(***************************************************************************)
(* Token-validation and tenant-resolution gateway of acci_base.            *)
(*                                                                         *)
(* The model follows src/src/common/middleware/auth.rs (auth_middleware,   *)
(* process_auth, validate_keycloak_token, get_jwks, create_decoding_key),  *)
(* src/src/common/middleware/tenant.rs (TenantMiddleware::call),           *)
(* src/src/common/middleware/tenant_middleware.rs (TenantInfo extractor),  *)
(* src/src/router.rs (create_router) and src/src/common/config.rs          *)
(* (KeycloakConfig).  Every action is one segment of an async handler      *)
(* between two suspension points (.await).                                 *)
(*                                                                         *)
(* Strings are modelled by what the code does with them:                   *)
(*   - a JWT is a record of its header fields, the key that signed it and  *)
(*     its claims; a signature verifies iff the verifying key is the       *)
(*     signing key;                                                        *)
(*   - a role is a sequence of atoms, the atom "tenant_" standing for the  *)
(*     literal prefix, so <<"tenant_", "acme">> is the role "tenant_acme"; *)
(*   - a JSON key-set document is a sequence of field tuples.              *)
(***************************************************************************)
EXTENDS Integers, Sequences, FiniteSets, TLC

VARIABLES
    access,       \* a direct call of verify_tenant_access: its arguments and its result
    cfgSetting,   \* what the deployment configuration says for keycloak.verify_token
    config,       \* AuthState.config.keycloak after loading
    stack,        \* which layer stack of the repository serves the request
    realmOf,      \* realmOf[r]: keycloak.realm of the gateway instance that serves r
    req,          \* req[r]: the inbound request (headers, extensions)
    pc,           \* pc[r]: the suspension point request r is parked at
    cache,        \* the shared cache store (Redis), key -> entry
    idpKeys,      \* idpKeys[realm]: the key set the IdP currently publishes for the realm
    httpResponse, \* httpResponse[r]: what send() resolved to in get_jwks
    fetched,      \* fetched[r]: the `jwks` local of get_jwks between fetch and set_ex
    jwksUsed,     \* jwksUsed[r]: the key set get_jwks returned to validate_keycloak_token
    decodingKey,  \* decodingKey[r]: the result of create_decoding_key
    mode,         \* mode[r]: verification mode that validate_keycloak_token ran in
    authResult,   \* authResult[r]: Result<UserInfo, AppError> of validate_keycloak_token
    forwarded,    \* forwarded[r]: the request handed to the next handler
    lookupResult, \* lookupResult[r]: what find_by_id / find_by_domain returned
    resp,         \* resp[r]: the response of the gateway
    ops,          \* ops[r]: how often each outbound operation ran for r
    metrics       \* auth_attempts_total / auth_duration_seconds

vars == <<access, cfgSetting, config, stack, realmOf, req, pc, cache, idpKeys, httpResponse,
          fetched, jwksUsed, decodingKey, mode, authResult, forwarded, lookupResult,
          resp, ops, metrics>>

-----------------------------------------------------------------------------
(* Bounds of the model *)

\* longest key set the IdP publishes
MaxKeys == 2
\* longest realm role list of a token
MaxRoles == 2
\* the clock reading (seconds) at which tokens are validated
Now == 100

Reqs == {"r1"}

-----------------------------------------------------------------------------
(* Configuration: src/src/common/config.rs *)

default_verify_token == TRUE

default_public_key_cache_ttl == 3600

KeycloakUrl == "http://localhost:8080"
Realm == "acci"
ClientId == "acci-backend"

\* serde default + Settings::new: the flag is what the deployment sets, else
\* default_verify_token()
LoadKeycloakConfig(setting) ==
    [ url |-> KeycloakUrl,
      realm |-> Realm,
      client_id |-> ClientId,
      verify_token |-> IF setting = "unset" THEN default_verify_token
                       ELSE setting = "true",
      public_key_cache_ttl |-> default_public_key_cache_ttl ]

\* format!("{}/realms/{}", url, realm)
IssuerOf(cfg) == cfg.url \o "/realms/" \o cfg.realm

\* realms that gateway instances are configured with
OtherRealm == "other"
Realms == {Realm, OtherRealm}

\* self.config.keycloak of the AuthState that serves r
ConfigOf(r) == [config EXCEPT !.realm = realmOf[r]]

\* format!("{}/realms/{}/protocol/openid-connect/certs", url, realm)
jwks_url(cfg) == cfg.url \o "/realms/" \o cfg.realm \o "/protocol/openid-connect/certs"

\* the certs endpoints of the IdP, one per realm
IdpUrls == {jwks_url([url |-> KeycloakUrl, realm |-> rl]) : rl \in Realms}

-----------------------------------------------------------------------------
(* Values *)

None == [some |-> FALSE]
Some(v) == [some |-> TRUE, v |-> v]

SeqsUpTo(S, n) == UNION {[1..k -> S] : k \in 0..n}

\* JwksKey {kid, kty, n, e}.  n names the RSA key pair; "!!" is a modulus
\* that is not valid base64url.
KeyIds == {"a", "b"}
Moduli == {"k1", "k2"}
BadModulus == "!!"
JwksKey(kid, n) == [kid |-> kid, kty |-> "RSA", n |-> n, e |-> "AQAB"]
KeyEntries == {JwksKey(k, n) : k \in KeyIds, n \in Moduli} \cup {JwksKey("a", BadModulus)}

\* Jwks {keys: Vec<JwksKey>}
Jwks(keys) == [keys |-> keys]
KeySets == {Jwks(ks) : ks \in SeqsUpTo(KeyEntries, MaxKeys)}

\* the fixed symmetric secret of test mode, and some other secret
TEST_KEY == "acci_test_key_do_not_use_in_production_2024"
OtherSecret == "some_other_secret"
Signers == Moduli \cup {TEST_KEY, OtherSecret}

\* role strings as atom sequences
RoleUser == <<"user">>
RoleTenantAcme == <<"tenant_", "acme">>
RoleTenantB == <<"tenant_", "b">>
RoleTenantTwice == <<"tenant_", "tenant_", "x">>
RoleStrings == {RoleUser, RoleTenantAcme, RoleTenantB, RoleTenantTwice}

RealmAccess(roles) == [present |-> TRUE, roles |-> roles]
NoRealmAccess == [present |-> FALSE, roles |-> <<>>]
RealmAccesses == {NoRealmAccess} \cup {RealmAccess(rs) : rs \in SeqsUpTo(RoleStrings, MaxRoles)}

\* expiry instants around the clock reading and around the default leeway
ExpValues == {Now - 61, Now - 60, Now - 1, Now, Now + 1}
IssValues == {None, Some(IssuerOf(LoadKeycloakConfig("unset"))), Some("http://evil/realms/acci"), Some("")}
AudValues == {None, Some(ClientId), Some("other-client")}

\* A bearer token.  form: "jwt" (three well-formed segments), "garbage" (not a
\* JWT: header cannot be decoded), "badclaims" (payload lacks a required field
\* of Claims).
Token(form, alg, kid, signer, exp, iss, aud, email, ra) ==
    [ form |-> form, alg |-> alg, kid |-> kid, signer |-> signer,
      exp |-> exp, iss |-> iss, aud |-> aud,
      sub |-> "test-user", preferred_username |-> "testuser",
      email |-> email, realm_access |-> ra ]

GoodIss == Some(IssuerOf(LoadKeycloakConfig("unset")))
GoodAud == Some(ClientId)
DefaultRealmAccess == RealmAccess(<<RoleUser>>)

\* tokens that vary header and signing key, claims in order
CryptoTokens ==
    {Token("jwt", alg, kid, s, Now + 1, GoodIss, GoodAud, None, DefaultRealmAccess) :
        alg \in {"RS256", "HS256"}, kid \in {None, Some("a"), Some("b")}, s \in Signers}

\* tokens that vary the registered claims, for a signer of each family
ClaimTokens ==
    {Token("jwt", as[1], Some("a"), as[2], exp, iss, aud, None, DefaultRealmAccess) :
        as \in {<<"RS256", "k1">>, <<"RS256", "k2">>, <<"HS256", TEST_KEY>>, <<"HS256", OtherSecret>>},
        exp \in ExpValues, iss \in IssValues, aud \in AudValues}

\* tokens that vary the identity claims
IdentityTokens ==
    {Token("jwt", as[1], None, as[2], Now + 1, as[3], as[4], email, ra) :
        as \in {<<"RS256", "k1", GoodIss, GoodAud>>, <<"HS256", TEST_KEY, None, None>>},
        email \in {None, Some("test@example.com")}, ra \in RealmAccesses}

GarbageToken == Token("garbage", "RS256", None, OtherSecret, Now + 1, None, None, None, NoRealmAccess)

BrokenTokens ==
    {GarbageToken} \cup
    {Token("badclaims", as[1], Some("a"), as[2], Now + 1, GoodIss, GoodAud, None, NoRealmAccess) :
        as \in {<<"RS256", "k1">>, <<"HS256", TEST_KEY>>}}

Tokens == CryptoTokens \cup ClaimTokens \cup IdentityTokens \cup BrokenTokens

\* The Authorization header: absent, bytes that are not visible ASCII
\* (to_str fails), or text made of a scheme prefix and the rest.
AuthHeader(kind, prefix, token) == [kind |-> kind, prefix |-> prefix, token |-> token]
NoAuthHeader == AuthHeader("absent", "", GarbageToken)
AuthHeaders ==
    {NoAuthHeader, AuthHeader("opaque", "", GarbageToken),
     AuthHeader("text", "Basic ", GarbageToken), AuthHeader("text", "bearer ", GarbageToken)}
    \cup {AuthHeader("text", "Bearer ", t) : t \in Tokens}

-----------------------------------------------------------------------------
(* Results *)

Ok(v) == [ok |-> TRUE, v |-> v]
\* AppError::AuthenticationError(msg): msg names the failing step
Err(msg) == [ok |-> FALSE, err |-> msg]

-----------------------------------------------------------------------------
(* Key-set documents: serde_json::to_string / from_str on Jwks *)

\* faulty variant: the keys are written out last to first
to_string_reversed(jwks) ==
    [kind |-> "json",
     keys |-> [i \in 1..Len(jwks.keys) |->
                 LET k == jwks.keys[Len(jwks.keys) + 1 - i]
                 IN  <<k.kid, k.kty, k.n, k.e>>]]

\* the JSON text of a key set: one <<kid, kty, n, e>> tuple per key, in order
to_string(jwks) ==
    [kind |-> "json",
     keys |-> [i \in 1..Len(jwks.keys) |->
                 <<jwks.keys[i].kid, jwks.keys[i].kty, jwks.keys[i].n, jwks.keys[i].e>>]]

GarbageText == [kind |-> "garbage", keys |-> <<>>]

\* serde_json::from_str::<Jwks>
from_str(text) ==
    IF text.kind = "json"
    THEN Ok([keys |-> [i \in 1..Len(text.keys) |->
                 [kid |-> text.keys[i][1], kty |-> text.keys[i][2],
                  n |-> text.keys[i][3], e |-> text.keys[i][4]]]])
    ELSE Err("Failed to parse JWKS")

AppErr(msg, cause) == [ok |-> FALSE, err |-> msg, cause |-> cause]

-----------------------------------------------------------------------------
(* jsonwebtoken as the middleware uses it *)

Min(S) == CHOOSE x \in S : \A y \in S : x <= y

AlgFamily(alg) == IF alg = "RS256" THEN "Rsa" ELSE "Hmac"

\* DecodingKey::from_secret
from_secret(secret) == [family |-> "Hmac", material |-> secret]

\* DecodingKey::from_rsa_components(&key.n, &key.e): fails when a component
\* is not base64url
from_rsa_components(key) ==
    IF key.n = BadModulus
    THEN Err("Failed to create decoding key")
    ELSE Ok([family |-> "Rsa", material |-> key.n])

\* jsonwebtoken::decode_header
decode_header(token) ==
    IF token.form = "garbage"
    THEN Err("Failed to decode token header")
    ELSE Ok([alg |-> token.alg, kid |-> token.kid])

\* leeway of Validation::new when the caller does not set it
DefaultLeeway == 60

\* Validation::new(alg)
ValidationNew(alg) ==
    [ algorithms |-> {alg},
      leeway |-> DefaultLeeway,
      validate_exp |-> TRUE,
      validate_aud |-> TRUE,
      required_spec_claims |-> {"exp"},
      iss |-> None,
      aud |-> None ]

\* is the named registered claim present in the token
ClaimPresent(token, c) ==
    CASE c = "exp" -> TRUE
      [] c = "iss" -> token.iss.some
      [] c = "aud" -> token.aud.some
      [] OTHER -> TRUE

\* the expiry test of the claims validation: the token is expired when its
\* exp lies more than the leeway before the clock reading
IsExpired(exp, leeway) == exp < Now - leeway

\* claims validation of jsonwebtoken::decode: required claims, exp, iss, aud
validate(token, v) ==
    IF \E c \in v.required_spec_claims : ~ClaimPresent(token, c)
    THEN Err("MissingRequiredClaim")
    ELSE IF v.validate_exp /\ IsExpired(token.exp, v.leeway)
    THEN Err("ExpiredSignature")
    ELSE IF token.iss.some /\ v.iss.some /\ token.iss.v \notin v.iss.v
    THEN Err("InvalidIssuer")
    ELSE IF ~v.validate_aud
    THEN Ok(token)
    ELSE IF token.aud.some /\ ~v.aud.some
    THEN Err("InvalidAudience")
    ELSE IF token.aud.some /\ v.aud.some /\ token.aud.v \notin v.aud.v
    THEN Err("InvalidAudience")
    ELSE Ok(token)

\* faulty variant: the signature is not checked
verify_nothing(token, key) == TRUE

\* the signature test: the verifying key is the key that signed
verify(token, key) == token.signer = key.material

\* jsonwebtoken::decode::<Claims>(token, &key, &validation)
decode(token, key, v) ==
    IF \E a \in v.algorithms : AlgFamily(a) # key.family
    THEN Err("InvalidAlgorithm")
    ELSE IF token.form = "garbage"
    THEN Err("InvalidToken")
    ELSE IF token.alg \notin v.algorithms
    THEN Err("InvalidAlgorithm")
    ELSE IF ~verify(token, key)
    THEN Err("InvalidSignature")
    ELSE IF token.form = "badclaims"
    THEN Err("Json")
    ELSE validate(token, v)

-----------------------------------------------------------------------------
(* Identity extraction *)

starts_with_tenant(role) == Len(role) >= 1 /\ role[1] = "tenant_"

\* str::trim_start_matches("tenant_"): removes every leading repetition
RECURSIVE trim_start_matches(_)
trim_start_matches(role) ==
    IF starts_with_tenant(role) THEN trim_start_matches(Tail(role)) ELSE role

\* roles.iter().find(starts_with).map(trim_start_matches) under as_ref().and_then
TenantIdOf(realm_access) ==
    LET hits == {i \in 1..Len(realm_access.roles) : starts_with_tenant(realm_access.roles[i])}
    IN  IF realm_access.present /\ hits # {}
        THEN Some(trim_start_matches(realm_access.roles[Min(hits)]))
        ELSE None

\* realm_access.map(|a| a.roles).unwrap_or_default()
RolesOf(realm_access) == IF realm_access.present THEN realm_access.roles ELSE <<>>

\* UserInfo built in the test-mode branch
TestUserInfo(claims) ==
    [ sub |-> claims.sub,
      preferred_username |-> claims.preferred_username,
      email |-> claims.email,
      roles |-> RolesOf(claims.realm_access),
      tenant_id |-> TenantIdOf(claims.realm_access) ]

\* faulty variant: the roles are collected in reverse and the email is dropped
ProdUserInfoLossy(claims) ==
    [ sub |-> claims.sub,
      preferred_username |-> claims.preferred_username,
      email |-> None,
      roles |-> [i \in 1..Len(RolesOf(claims.realm_access)) |->
                   RolesOf(claims.realm_access)[Len(RolesOf(claims.realm_access)) + 1 - i]],
      tenant_id |-> TenantIdOf(claims.realm_access) ]

\* UserInfo built in the production branch
ProdUserInfo(claims) ==
    [ sub |-> claims.sub,
      preferred_username |-> claims.preferred_username,
      email |-> claims.email,
      roles |-> RolesOf(claims.realm_access),
      tenant_id |-> TenantIdOf(claims.realm_access) ]

-----------------------------------------------------------------------------
(* validate_keycloak_token *)

\* the Validation of the test-mode branch
TestValidation ==
    [ValidationNew("HS256") EXCEPT
        !.validate_exp = TRUE,
        !.validate_aud = FALSE,
        !.required_spec_claims = {},
        !.iss = Some({""}),
        !.leeway = 0]

\* the Validation of the production branch
ProdValidation(cfg) ==
    [ValidationNew("RS256") EXCEPT
        !.aud = Some({cfg.client_id}),
        !.iss = Some({IssuerOf(cfg)})]

\* faulty variant: a token whose header names the symmetric algorithm selects test mode
VerificationModeByAlg(cfg, token) ==
    IF ~cfg.verify_token \/ token.alg = "HS256" THEN "test" ELSE "production"

\* which branch validate_keycloak_token takes
VerificationMode(cfg, token) == IF ~cfg.verify_token THEN "test" ELSE "production"

\* test-mode branch
ValidateTestMode(token) ==
    LET d == decode(token, from_secret(TEST_KEY), TestValidation)
    IN  IF d.ok THEN Ok(TestUserInfo(d.v))
        ELSE AppErr("Test token validation failed", d.err)

\* faulty variant: an unknown kid falls back to the first key
SelectKeyFallback(jwks, kid) ==
    LET hits == {i \in 1..Len(jwks.keys) : kid.some /\ jwks.keys[i].kid = kid.v}
    IN  IF Len(jwks.keys) = 0 THEN Err("No keys found in JWKS")
        ELSE IF hits = {} THEN Ok(jwks.keys[1])
        ELSE Ok(jwks.keys[Min(hits)])

\* jwks.keys.iter().find(|k| k.kid == kid) / jwks.keys.first()
SelectKey(jwks, kid) ==
    LET hits == {i \in 1..Len(jwks.keys) : kid.some /\ jwks.keys[i].kid = kid.v}
    IN  IF kid.some
        THEN IF hits = {} THEN Err("No key found with kid")
             ELSE Ok(jwks.keys[Min(hits)])
        ELSE IF Len(jwks.keys) = 0 THEN Err("No keys found in JWKS")
             ELSE Ok(jwks.keys[1])

create_decoding_key(jwks, token) ==
    LET header == decode_header(token)
    IN  IF ~header.ok THEN AppErr(header.err, "InvalidToken")
        ELSE LET key == SelectKey(jwks, header.v.kid)
             IN  IF ~key.ok THEN AppErr(key.err, "none")
                 ELSE LET dk == from_rsa_components(key.v)
                      IN  IF ~dk.ok THEN AppErr(dk.err, "base64") ELSE dk

\* production branch once get_jwks has returned Ok(jwks)
ValidateProduction(cfg, jwks, token) ==
    LET key == create_decoding_key(jwks, token)
    IN  IF ~key.ok THEN key
        ELSE LET d == decode(token, key.v, ProdValidation(cfg))
             IN  IF d.ok THEN Ok(ProdUserInfo(d.v))
                 ELSE AppErr("Token validation failed", d.err)

-----------------------------------------------------------------------------
(* Tenant lookup collaborator: domain/tenant.rs, services/tenant_service.rs *)

TENANT_HEADER == "X-Tenant-ID"

ActiveId == "00000000-0000-0000-0000-0000000000a1"
InactiveId == "00000000-0000-0000-0000-000000000001"
UnknownId == "00000000-0000-0000-0000-000000000002"

Tenant(id, domain, active) == [id |-> id, domain |-> domain, is_active |-> active]

\* rows of the tenant table
TenantRows ==
    {Tenant(ActiveId, "active.example.com", TRUE),
     Tenant(InactiveId, "inactive.example.com", FALSE)}

\* Uuid::parse_str
IsUuid(id) == id \in {ActiveId, InactiveId, UnknownId}

\* TenantServiceImpl::find_by_id
find_by_id(id, dbUp) ==
    IF ~IsUuid(id) THEN Err("Invalid UUID format")
    ELSE IF ~dbUp THEN Err("Database error")
    ELSE IF \E t \in TenantRows : t.id = id
    THEN Ok(CHOOSE t \in TenantRows : t.id = id)
    ELSE Err("Tenant not found")

\* TenantServiceImpl::find_by_domain
find_by_domain(domain, dbUp) ==
    IF ~dbUp THEN Err("Database error")
    ELSE IF \E t \in TenantRows : t.domain = domain
    THEN Ok(CHOOSE t \in TenantRows : t.domain = domain)
    ELSE Err("Tenant not found")

\* Tenant::validate_active
validate_active(tenant) ==
    IF ~tenant.is_active THEN Err("Tenant is not active") ELSE Ok(tenant)

-----------------------------------------------------------------------------
(* Requests *)

\* a header value: absent, bytes for which to_str fails, or text
HeaderValue(kind, v) == [kind |-> kind, v |-> v]
NoHeader == HeaderValue("absent", "")
OpaqueHeader == HeaderValue("opaque", "")
Text(v) == HeaderValue("text", v)

TenantHeaders == {NoHeader, OpaqueHeader, Text("invalid-uuid")} \cup
                 {Text(id) : id \in {ActiveId, InactiveId, UnknownId}}
HostHeaders == {NoHeader, OpaqueHeader, Text("active.example.com"),
                Text("inactive.example.com"), Text("nobody.example.com")}

Request(auth, tenant, host, body) ==
    [ method |-> "GET", uri |-> "/api/v1/x",
      auth |-> auth, tenant_header |-> tenant, host |-> host,
      user_info |-> None, tenant_ctx |-> None,
      body |-> body ]

\* requests served by create_router: the Authorization header varies
RouterRequests == {Request(a, NoHeader, Text("active.example.com"), "payload") : a \in AuthHeaders}

\* the UserInfo of a token whose only role is tenant_<id>
IdentityOfTenant(id) ==
    [ sub |-> "test-user", preferred_username |-> "testuser", email |-> None,
      roles |-> << <<"tenant_", id>> >>, tenant_id |-> Some(<<id>>) ]

\* requests that reach the tenant stage with the UserInfo extension that
\* process_auth inserts
IdentifiedRequests ==
    {[Request(NoAuthHeader, t, h, "payload") EXCEPT
         !.user_info = Some(IdentityOfTenant(ActiveId))] :
        t \in {NoHeader, Text(InactiveId)},
        h \in {NoHeader, Text("inactive.example.com")}}

\* requests served by a tenant stage: the tenant signals vary
TenantRequests ==
    {Request(NoAuthHeader, t, h, "payload") : t \in TenantHeaders, h \in HostHeaders}
    \cup IdentifiedRequests

\* faulty variant: any textual Authorization header is taken for a bearer token
bearer_token_any_scheme(rq) ==
    IF rq.auth.kind = "text" THEN Some(rq.auth.token) ELSE None

\* headers().get("Authorization").and_then(to_str().ok()).and_then(strip_prefix("Bearer "))
bearer_token(rq) ==
    IF rq.auth.kind = "text" /\ rq.auth.prefix = "Bearer "
    THEN Some(rq.auth.token)
    ELSE None

\* faulty variant: the inbound request is handed on as it is
new_req_keeps_body(rq) == rq

\* the request process_auth builds for the next handler: same uri, method,
\* headers and extensions, Body::empty()
new_req(rq) == [rq EXCEPT !.body = ""]

-----------------------------------------------------------------------------
(* Cache store and IdP *)

JWKS_CACHE_KEY == "keycloak:jwks"
CacheKeys == {JWKS_CACHE_KEY}

CacheEntry(value, ttl) == Some([value |-> value, ttl |-> ttl])

\* faulty variant: the written keys are appended to the keys already stored
set_ex_append(store, key, value, ttl) ==
    [store EXCEPT ![key] =
        IF @.some /\ @.v.value.kind = "json"
        THEN CacheEntry([value EXCEPT !.keys = store[key].v.value.keys \o value.keys], ttl)
        ELSE CacheEntry(value, ttl)]

\* faulty variant: the entry is written with the default TTL, whatever is configured
set_ex_default_ttl(store, key, value, ttl) ==
    [store EXCEPT ![key] = CacheEntry(value, default_public_key_cache_ttl)]

\* redis SETEX: the entry is replaced as a whole
set_ex(store, key, value, ttl) == [store EXCEPT ![key] = CacheEntry(value, ttl)]

\* what the IdP's certs endpoint can answer: no answer (connection error),
\* or a status with a body
HttpResponses(keys) ==
    {[sent |-> FALSE, status |-> "none", body |-> GarbageText]} \cup
    {[sent |-> TRUE, status |-> st, body |-> b] :
        st \in {"200", "503"}, b \in {to_string(keys), GarbageText}}

\* .send().await?.json().await? : the status is not looked at
fetch_jwks(response) ==
    IF ~response.sent THEN AppErr("Failed to fetch JWKS", "network")
    ELSE LET parsed == from_str(response.body)
         IN  IF parsed.ok THEN parsed ELSE AppErr("Failed to parse JWKS", "json")

-----------------------------------------------------------------------------
(* Initial states *)

NoOps == [validate |-> 0, redis_get |-> 0, fetch |-> 0, redis_set |-> 0,
          lookup |-> 0, find_by_id |-> 0, find_by_domain |-> 0, next |-> 0]

\* key sets paired with the tokens that do not vary the key selection
FewKeySets == {Jwks(<<JwksKey("a", "k1")>>), Jwks(<<JwksKey("b", "k2"), JwksKey("a", "k1")>>)}

\* the cache store and the IdP only matter to a production-mode request that
\* carries a bearer token; elsewhere they are left empty
UsesKeySet(cfg, st, rq) == st = "router" /\ cfg.verify_token /\ bearer_token(rq).some

\* the IdP publishes `keys` for the realm and nothing for the others
IdpWith(realm, keys) ==
    [u \in IdpUrls |-> IF u = jwks_url([url |-> KeycloakUrl, realm |-> realm])
                       THEN keys ELSE Jwks(<<>>)]

\* the locals of the handlers before any of them has run
InitLocals(R) ==
    /\ pc = [r \in R |-> "start"]
    /\ httpResponse = [r \in R |-> None]
    /\ fetched = [r \in R |-> None]
    /\ jwksUsed = [r \in R |-> None]
    /\ decodingKey = [r \in R |-> None]
    /\ mode = [r \in R |-> "none"]
    /\ authResult = [r \in R |-> None]
    /\ forwarded = [r \in R |-> None]
    /\ lookupResult = [r \in R |-> None]
    /\ resp = [r \in R |-> None]
    /\ ops = [r \in R |-> NoOps]
    /\ metrics = [success |-> 0, failure |-> 0, samples |-> 0, label_names |-> {}]

Init ==
    /\ cfgSetting \in {"unset", "true", "false"}
    /\ config = LoadKeycloakConfig(cfgSetting)
    /\ stack \in {"router", "tenant_layer", "tenant_extractor"}
    /\ stack # "router" => cfgSetting = "unset"
    /\ realmOf = [r \in Reqs |-> Realm]
    /\ \E rq \in (IF stack = "router" THEN RouterRequests ELSE TenantRequests) :
          /\ req = [r \in Reqs |-> rq]
          /\ \E keys \in KeySets :
                /\ idpKeys = IdpWith(Realm, keys)
                /\ IF UsesKeySet(config, stack, rq)
                   THEN /\ rq.auth.token \notin CryptoTokens => keys \in FewKeySets
                        /\ cache \in [CacheKeys ->
                              {None, CacheEntry(GarbageText, default_public_key_cache_ttl),
                               CacheEntry(to_string(keys), default_public_key_cache_ttl)}]
                   ELSE /\ keys = Jwks(<<>>)
                        /\ cache = [k \in CacheKeys |-> None]
    /\ InitLocals(Reqs)
    /\ access = None

-----------------------------------------------------------------------------
(* auth_middleware / process_auth *)

Bump(o, field) == [o EXCEPT ![field] = @ + 1]

\* AuthState::record_auth_metrics(success, duration): auth_attempts_total is
\* incremented under the one label "status", auth_duration_seconds gets a sample
record_auth_metrics(m, success) ==
    [m EXCEPT ![IF success THEN "success" ELSE "failure"] = @ + 1,
              !.samples = @ + 1,
              !.label_names = @ \cup {"status"}]

Response(status, body, by) == Some([status |-> status, body |-> body, by |-> by])

\* Err(StatusCode::UNAUTHORIZED) leaves process_auth; auth_middleware records
\* the metrics and returns it
AuthReject(r) ==
    /\ resp' = [resp EXCEPT ![r] = Response("401", "", "gateway")]
    /\ metrics' = record_auth_metrics(metrics, FALSE)
    /\ pc' = [pc EXCEPT ![r] = "done"]
    /\ UNCHANGED <<req, forwarded>>

\* the Ok arm of process_auth: insert the UserInfo, build new_req, call next
AuthForward(r, user_info) ==
    LET withUser == [req[r] EXCEPT !.user_info = Some(user_info)]
    IN  /\ req' = [req EXCEPT ![r] = withUser]
        /\ forwarded' = [forwarded EXCEPT ![r] = Some(new_req(withUser))]
        /\ pc' = [pc EXCEPT ![r] = "next"]
        /\ UNCHANGED <<resp, metrics>>

\* faulty variant: a validation error is logged and the request forwarded anyway
SettleFailOpen(r, result, o) ==
    /\ authResult' = [authResult EXCEPT ![r] = Some(result)]
    /\ forwarded' = [forwarded EXCEPT ![r] = Some(new_req(req[r]))]
    /\ pc' = [pc EXCEPT ![r] = "next"]
    /\ ops' = [ops EXCEPT ![r] = Bump(o, "next")]
    /\ req' = IF result.ok THEN [req EXCEPT ![r].user_info = Some(result.v)] ELSE req
    /\ UNCHANGED <<resp, metrics>>

\* match state.validate_keycloak_token(&token).await { Ok(..) => .., Err(..) => .. }
\* o: the operation counts of r at the end of this segment
Settle(r, result, o) ==
    /\ authResult' = [authResult EXCEPT ![r] = Some(result)]
    /\ IF result.ok
       THEN /\ AuthForward(r, result.v)
            /\ ops' = [ops EXCEPT ![r] = Bump(o, "next")]
       ELSE /\ AuthReject(r)
            /\ ops' = [ops EXCEPT ![r] = o]

\* faulty variant: the claims of the token are put into the request extensions
\* before the token is verified
AuthEnterEager(r) ==
    /\ stack = "router"
    /\ pc[r] = "start"
    /\ LET token == bearer_token(req[r])
       IN  IF ~token.some
           THEN /\ AuthReject(r)
                /\ UNCHANGED <<mode, authResult, ops>>
           ELSE /\ mode' = [mode EXCEPT ![r] = VerificationMode(config, token.v)]
                /\ IF mode'[r] = "test"
                   THEN Settle(r, ValidateTestMode(token.v), Bump(ops[r], "validate"))
                   ELSE /\ pc' = [pc EXCEPT ![r] = "redis_conn"]
                        /\ ops' = [ops EXCEPT ![r] = Bump(@, "validate")]
                        /\ req' = [req EXCEPT ![r].user_info = Some(ProdUserInfo(token.v))]
                        /\ UNCHANGED <<forwarded, resp, metrics, authResult>>
    /\ UNCHANGED <<access, cfgSetting, config, stack, realmOf, lookupResult, httpResponse, cache, idpKeys, fetched, jwksUsed, decodingKey>>

\* auth_middleware up to its first suspension point: the header is read; in
\* test mode the whole validation runs here, in production mode the task
\* parks on the connection to the cache store
AuthEnter(r) ==
    /\ stack = "router"
    /\ pc[r] = "start"
    /\ LET token == bearer_token(req[r])
       IN  IF ~token.some
           THEN /\ AuthReject(r)
                /\ UNCHANGED <<mode, authResult, ops>>
           ELSE /\ mode' = [mode EXCEPT ![r] = VerificationMode(config, token.v)]
                /\ IF mode'[r] = "test"
                   THEN Settle(r, ValidateTestMode(token.v), Bump(ops[r], "validate"))
                   ELSE /\ pc' = [pc EXCEPT ![r] = "redis_conn"]
                        /\ ops' = [ops EXCEPT ![r] = Bump(@, "validate")]
                        /\ UNCHANGED <<req, forwarded, resp, metrics, authResult>>
    /\ UNCHANGED <<access, cfgSetting, config, stack, realmOf, lookupResult, httpResponse, cache, idpKeys, fetched, jwksUsed, decodingKey>>

\* get_jwks: get_multiplexed_async_connection().await returned
RedisConnected(r) ==
    /\ pc[r] = "redis_conn"
    /\ \E up \in BOOLEAN :
          IF up
          THEN /\ pc' = [pc EXCEPT ![r] = "redis_get"]
               /\ UNCHANGED <<req, forwarded, resp, metrics, authResult, ops>>
          ELSE Settle(r, AppErr("Redis connection failed", "redis"), ops[r])
    /\ UNCHANGED <<access, cfgSetting, config, stack, realmOf, lookupResult, httpResponse, cache, idpKeys, fetched, jwksUsed, decodingKey, mode>>

\* faulty variant: the cached value is never used
CachedJwksIgnored(entry) == Err("miss")

\* the cached text parses as a key set
CachedJwks(entry) == IF entry.some THEN from_str(entry.v.value) ELSE Err("miss")

\* validate_keycloak_token after `let jwks = self.get_jwks().await?`: select
\* the key, decode, and let process_auth act on the result
VerifyWith(r, keyset, o) ==
    /\ jwksUsed' = [jwksUsed EXCEPT ![r] = Some(keyset)]
    /\ decodingKey' = [decodingKey EXCEPT ![r] =
                          Some(create_decoding_key(keyset, req[r].auth.token))]
    /\ Settle(r, ValidateProduction(ConfigOf(r), keyset, req[r].auth.token), o)

\* get_jwks: redis_conn.get(JWKS_CACHE_KEY).await returned; a parseable
\* cached set is returned to validate_keycloak_token, which verifies with it
RedisGot(r) ==
    /\ pc[r] = "redis_get"
    /\ \E up \in BOOLEAN :
          IF ~up
          THEN /\ Settle(r, AppErr("Redis get failed", "redis"), Bump(ops[r], "redis_get"))
               /\ UNCHANGED <<jwksUsed, decodingKey>>
          ELSE LET cached == CachedJwks(cache[JWKS_CACHE_KEY])
               IN  IF cached.ok
                   THEN VerifyWith(r, cached.v, Bump(ops[r], "redis_get"))
                   ELSE /\ pc' = [pc EXCEPT ![r] = "http_fetch"]
                        /\ ops' = [ops EXCEPT ![r] = Bump(@, "redis_get")]
                        /\ UNCHANGED <<req, forwarded, resp, metrics, authResult,
                                       jwksUsed, decodingKey>>
    /\ UNCHANGED <<access, cfgSetting, config, stack, realmOf, lookupResult, httpResponse, cache, idpKeys, fetched, mode>>

\* get_jwks: reqwest get(..).send().await?.json().await? returned
HttpResponded(r) ==
    /\ pc[r] = "http_fetch"
    /\ \E response \in HttpResponses(idpKeys[jwks_url(ConfigOf(r))]) :
          LET got == fetch_jwks(response)
          IN  /\ httpResponse' = [httpResponse EXCEPT ![r] = Some(response)]
              /\ IF got.ok
                 THEN /\ fetched' = [fetched EXCEPT ![r] = Some(got.v)]
                      /\ pc' = [pc EXCEPT ![r] = "redis_set"]
                      /\ ops' = [ops EXCEPT ![r] = Bump(@, "fetch")]
                      /\ UNCHANGED <<req, forwarded, resp, metrics, authResult>>
                 ELSE /\ Settle(r, got, Bump(ops[r], "fetch"))
                      /\ UNCHANGED fetched
    /\ UNCHANGED <<access, cfgSetting, config, stack, realmOf, lookupResult, cache, idpKeys, jwksUsed, decodingKey, mode>>

\* get_jwks: redis_conn.set_ex(JWKS_CACHE_KEY, jwks_str, ttl).await returned
RedisSetDone(r) ==
    /\ pc[r] = "redis_set"
    /\ \E up \in BOOLEAN :
          IF up
          THEN /\ cache' = set_ex(cache, JWKS_CACHE_KEY, to_string(fetched[r].v),
                                   ConfigOf(r).public_key_cache_ttl)
               /\ VerifyWith(r, fetched[r].v, Bump(ops[r], "redis_set"))
          ELSE /\ Settle(r, AppErr("Failed to cache JWKS", "redis"), Bump(ops[r], "redis_set"))
               /\ UNCHANGED <<cache, jwksUsed, decodingKey>>
    /\ UNCHANGED <<access, cfgSetting, config, stack, realmOf, lookupResult, httpResponse, idpKeys, fetched, mode>>

-----------------------------------------------------------------------------
(* TenantMiddleware::call *)

\* create_error_response(status, message)
create_error_response(status, message) == Response(status, message, "gateway")

\* which lookup the header match of call() issues, if any
TenantLookup(rq) ==
    IF rq.tenant_header.kind # "absent"
    THEN IF rq.tenant_header.kind = "text"
         THEN Ok([by |-> "id", arg |-> rq.tenant_header.v])
         ELSE Err("Invalid tenant header value")
    ELSE IF rq.host.kind = "text"
         THEN Ok([by |-> "domain", arg |-> rq.host.v])
         ELSE Err("Missing host header and tenant ID")

\* call() up to the lookup's suspension point
TenantEnter(r) ==
    /\ stack = "tenant_layer"
    /\ pc[r] = "start"
    /\ LET lookup == TenantLookup(req[r])
       IN  IF lookup.ok
           THEN /\ pc' = [pc EXCEPT ![r] = "tenant_lookup"]
                /\ ops' = [ops EXCEPT ![r] =
                              Bump(Bump(@, "lookup"),
                                   IF lookup.v.by = "id" THEN "find_by_id" ELSE "find_by_domain")]
                /\ UNCHANGED resp
           ELSE /\ resp' = [resp EXCEPT ![r] = create_error_response("400", lookup.err)]
                /\ pc' = [pc EXCEPT ![r] = "done"]
                /\ UNCHANGED ops
    /\ UNCHANGED <<access, cfgSetting, config, stack, realmOf, lookupResult, httpResponse, req, cache, idpKeys, fetched, jwksUsed, decodingKey, mode,
                   authResult, forwarded, metrics>>

\* call() after find_by_id / find_by_domain returned
TenantLookedUp(r) ==
    /\ pc[r] = "tenant_lookup"
    /\ \E dbUp \in BOOLEAN :
          LET lookup == TenantLookup(req[r]).v
              found == IF lookup.by = "id" THEN find_by_id(lookup.arg, dbUp)
                       ELSE find_by_domain(lookup.arg, dbUp)
          IN  /\ lookupResult' = [lookupResult EXCEPT ![r] = Some(found)]
              /\ IF ~found.ok
                 THEN /\ resp' = [resp EXCEPT ![r] =
                                    create_error_response("404", <<"Tenant error: ", found.err>>)]
                      /\ pc' = [pc EXCEPT ![r] = "done"]
                      /\ UNCHANGED <<req, forwarded, ops>>
                 ELSE IF ~validate_active(found.v).ok
                 THEN /\ resp' = [resp EXCEPT ![r] =
                                    create_error_response("403", <<"Tenant error: ", validate_active(found.v).err>>)]
                      /\ pc' = [pc EXCEPT ![r] = "done"]
                      /\ UNCHANGED <<req, forwarded, ops>>
                 ELSE LET withTenant == [req[r] EXCEPT !.tenant_ctx =
                                            Some([tenant |-> found.v, request_id |-> "unknown"])]
                      IN  /\ req' = [req EXCEPT ![r] = withTenant]
                          /\ forwarded' = [forwarded EXCEPT ![r] = Some(withTenant)]
                          /\ ops' = [ops EXCEPT ![r] = Bump(@, "next")]
                          /\ pc' = [pc EXCEPT ![r] = "next"]
                          /\ UNCHANGED resp
    /\ UNCHANGED <<access, cfgSetting, config, stack, realmOf, httpResponse, cache, idpKeys, fetched, jwksUsed, decodingKey, mode,
                   authResult, metrics>>

-----------------------------------------------------------------------------
(* TenantInfo::from_request_parts: tenant_middleware.rs *)

\* impl IntoResponse for AppError: the status of each error kind
StatusOf(kind) ==
    CASE kind = "ValidationError" -> "400"
      [] kind = "TenantError" -> "400"
      [] kind = "NotFoundError" -> "404"
      [] kind = "AuthorizationError" -> "403"
      [] kind = "DatabaseError" -> "500"
      [] OTHER -> "500"

\* AppError::<kind>(message).into_response()
into_response(kind, message) == Response(StatusOf(kind), <<kind, message>>, "gateway")

\* the header checks of from_request_parts, up to db.connect().await
ExtractorEnter(r) ==
    /\ stack = "tenant_extractor"
    /\ pc[r] = "start"
    /\ LET h == req[r].tenant_header
           rejection ==
               IF h.kind = "absent" THEN Err("Missing X-Tenant-ID header")
               ELSE IF h.kind # "text" THEN Err("Invalid tenant ID format")
               ELSE IF ~IsUuid(h.v) THEN Err("Invalid tenant ID")
               ELSE Ok(h.v)
       IN  IF rejection.ok
           THEN /\ pc' = [pc EXCEPT ![r] = "db_connect"]
                /\ UNCHANGED resp
           ELSE /\ resp' = [resp EXCEPT ![r] = into_response("ValidationError", rejection.err)]
                /\ pc' = [pc EXCEPT ![r] = "done"]
    /\ UNCHANGED <<access, cfgSetting, config, stack, realmOf, lookupResult, httpResponse, req, cache, idpKeys, fetched,
                   jwksUsed, decodingKey, mode, authResult, forwarded, ops, metrics>>

\* tenant_state.db.connect().await returned; on success find_by_id is called
ExtractorConnected(r) ==
    /\ pc[r] = "db_connect"
    /\ \E up \in BOOLEAN :
          IF up
          THEN /\ pc' = [pc EXCEPT ![r] = "extractor_lookup"]
               /\ ops' = [ops EXCEPT ![r] = Bump(Bump(@, "lookup"), "find_by_id")]
               /\ UNCHANGED resp
          ELSE /\ resp' = [resp EXCEPT ![r] =
                             into_response("DatabaseError", "Failed to connect to database")]
               /\ pc' = [pc EXCEPT ![r] = "done"]
               /\ UNCHANGED ops
    /\ UNCHANGED <<access, cfgSetting, config, stack, realmOf, lookupResult, httpResponse, req, cache, idpKeys, fetched,
                   jwksUsed, decodingKey, mode, authResult, forwarded, metrics>>

\* find_by_id(..).await returned: any error is answered as a tenant error, an
\* inactive tenant too; otherwise the handler runs with the TenantInfo
ExtractorLookedUp(r) ==
    /\ pc[r] = "extractor_lookup"
    /\ \E dbUp \in BOOLEAN :
          LET found == find_by_id(req[r].tenant_header.v, dbUp)
          IN  /\ lookupResult' = [lookupResult EXCEPT ![r] = Some(found)]
              /\ IF ~found.ok
                 THEN /\ resp' = [resp EXCEPT ![r] = into_response("TenantError", "Tenant not found")]
                      /\ pc' = [pc EXCEPT ![r] = "done"]
                      /\ UNCHANGED <<req, forwarded, ops>>
                 ELSE IF ~found.v.is_active
                 THEN /\ resp' = [resp EXCEPT ![r] =
                                    into_response("TenantError", "Tenant is not active")]
                      /\ pc' = [pc EXCEPT ![r] = "done"]
                      /\ UNCHANGED <<req, forwarded, ops>>
                 ELSE LET withTenant == [req[r] EXCEPT !.tenant_ctx =
                                            Some([tenant |-> found.v, request_id |-> "generated"])]
                      IN  /\ req' = [req EXCEPT ![r] = withTenant]
                          /\ forwarded' = [forwarded EXCEPT ![r] = Some(withTenant)]
                          /\ ops' = [ops EXCEPT ![r] = Bump(@, "next")]
                          /\ pc' = [pc EXCEPT ![r] = "next"]
                          /\ UNCHANGED resp
    /\ UNCHANGED <<access, cfgSetting, config, stack, realmOf, httpResponse, cache, idpKeys, fetched,
                   jwksUsed, decodingKey, mode, authResult, metrics>>

-----------------------------------------------------------------------------
(* The next handler and the environment *)

\* the key set before the IdP rotates its signing key, and after: the new key
\* is published in front of the old one
BeforeRotation == Jwks(<<JwksKey("a", "k1")>>)
AfterRotation == Jwks(<<JwksKey("b", "k2"), JwksKey("a", "k1")>>)

\* the IdP rotates the signing key of a realm (once)
IdpRotate ==
    /\ \E u \in IdpUrls :
          /\ idpKeys[u] = BeforeRotation
          /\ idpKeys' = [idpKeys EXCEPT ![u] = AfterRotation]
    /\ UNCHANGED <<access, cfgSetting, config, stack, realmOf, lookupResult, httpResponse, req, pc, cache, fetched,
                   jwksUsed, decodingKey, mode, authResult, forwarded, resp, ops, metrics>>

\* next.run(new_req).await / inner.call(request).await returned; under
\* auth_middleware the Ok result is counted as a success
NextReturned(r) ==
    /\ pc[r] = "next"
    /\ resp' = [resp EXCEPT ![r] = Response("200", "handler", "downstream")]
    /\ metrics' = IF stack = "router" THEN record_auth_metrics(metrics, TRUE) ELSE metrics
    /\ pc' = [pc EXCEPT ![r] = "done"]
    /\ UNCHANGED <<access, cfgSetting, config, stack, realmOf, lookupResult, httpResponse, req, cache, idpKeys, fetched, jwksUsed, decodingKey, mode,
                   authResult, forwarded, ops>>

\* the points at which a handler of the gateway is suspended on a collaborator
SuspensionPoints ==
    {"redis_conn", "redis_get", "http_fetch", "redis_set",
     "tenant_lookup", "db_connect", "extractor_lookup"}

\* the request is cancelled (the client went away): the future of the handler
\* is dropped at the .await it is parked on, and nothing after it runs
Cancel(r) ==
    /\ pc[r] \in SuspensionPoints \cup {"next"}
    /\ pc' = [pc EXCEPT ![r] = IF pc[r] = "next" THEN "cancelled_downstream" ELSE "cancelled"]
    /\ UNCHANGED <<access, cfgSetting, config, stack, realmOf, lookupResult, httpResponse, req, cache, idpKeys,
                   fetched, jwksUsed, decodingKey, mode, authResult, forwarded, resp, ops, metrics>>

\* the store drops an entry whose TTL has run out
CacheExpire ==
    /\ \E k \in CacheKeys :
          /\ cache[k].some
          /\ cache' = [cache EXCEPT ![k] = None]
    /\ UNCHANGED <<access, cfgSetting, config, stack, realmOf, lookupResult, httpResponse, req, pc, idpKeys, fetched, jwksUsed, decodingKey, mode,
                   authResult, forwarded, resp, ops, metrics>>

Next ==
    \/ \E r \in DOMAIN pc : AuthEnter(r)
    \/ \E r \in DOMAIN pc : RedisConnected(r)
    \/ \E r \in DOMAIN pc : RedisGot(r)
    \/ \E r \in DOMAIN pc : HttpResponded(r)
    \/ \E r \in DOMAIN pc : RedisSetDone(r)
    \/ \E r \in DOMAIN pc : TenantEnter(r)
    \/ \E r \in DOMAIN pc : TenantLookedUp(r)
    \/ \E r \in DOMAIN pc : ExtractorEnter(r)
    \/ \E r \in DOMAIN pc : ExtractorConnected(r)
    \/ \E r \in DOMAIN pc : ExtractorLookedUp(r)
    \/ \E r \in DOMAIN pc : NextReturned(r)
    \/ \E r \in DOMAIN pc : Cancel(r)
    \/ CacheExpire
    \/ IdpRotate

Spec == Init /\ [][Next]_vars

\* the steps the runtime and the local collaborators take on their own: the
\* handler's own code, the answers of the cache store and of the database, and
\* the return of the next handler. The answer of the IdP is not among them:
\* the fetch is sent without a timeout, so nothing forces it to end
GatewaySteps ==
    \E r \in DOMAIN pc :
        \/ AuthEnter(r) \/ RedisConnected(r) \/ RedisGot(r) \/ RedisSetDone(r)
        \/ TenantEnter(r) \/ TenantLookedUp(r)
        \/ ExtractorEnter(r) \/ ExtractorConnected(r) \/ ExtractorLookedUp(r)
        \/ NextReturned(r)

\* the gateway under fair scheduling of its own steps
SpecFair == Init /\ [][Next]_vars /\ WF_vars(GatewaySteps)

-----------------------------------------------------------------------------
(* Two requests in flight over one cache store *)

SharedReqs == {"r1", "r2"}

\* the key set the IdP publishes for the other realm
OtherRealmKeys == Jwks(<<JwksKey("a", "k2")>>)

\* bearer tokens of the shared runs: signed with the key published before the
\* rotation, and with the key published by it
SharedTokens ==
    {Token("jwt", "RS256", Some(ks[1]), ks[2], Now + 1, GoodIss, GoodAud, None, DefaultRealmAccess) :
        ks \in {<<"a", "k1">>, <<"b", "k2">>}}

\* public_key_cache_ttl values a deployment sets
CacheTtls == {default_public_key_cache_ttl, 2 * default_public_key_cache_ttl}

SharedRouterRequests ==
    {Request(AuthHeader("text", "Bearer ", t), NoHeader, Text("active.example.com"), "payload") :
        t \in SharedTokens}

SharedTenantRequests ==
    {Request(NoAuthHeader, t, Text("active.example.com"), "payload") :
        t \in {NoHeader, Text(ActiveId), Text(UnknownId)}}

\* r1 is served by a gateway of the default realm; r2 by the same gateway or
\* by a gateway configured with the other realm; both use one cache store
InitShared ==
    /\ cfgSetting = "unset"
    /\ \E ttl \in CacheTtls :
          config = [LoadKeycloakConfig(cfgSetting) EXCEPT !.public_key_cache_ttl = ttl]
    /\ stack \in {"router", "tenant_layer", "tenant_extractor"}
    /\ realmOf \in [SharedReqs -> Realms]
    /\ realmOf["r1"] = Realm
    /\ stack # "router" => (realmOf["r2"] = Realm /\ config = LoadKeycloakConfig(cfgSetting))
    /\ req \in [SharedReqs -> IF stack = "router" THEN SharedRouterRequests
                                                  ELSE SharedTenantRequests]
    /\ idpKeys = [IdpWith(Realm, BeforeRotation) EXCEPT
                     ![jwks_url([url |-> KeycloakUrl, realm |-> OtherRealm])] = OtherRealmKeys]
    /\ IF stack = "router"
       THEN cache \in [CacheKeys ->
                         {None, CacheEntry(GarbageText, config.public_key_cache_ttl),
                          CacheEntry(to_string(BeforeRotation), config.public_key_cache_ttl)}]
       ELSE cache = [k \in CacheKeys |-> None]
    /\ InitLocals(SharedReqs)
    /\ access = None

SpecShared == InitShared /\ [][Next]_vars

-----------------------------------------------------------------------------
(* verify_tenant_access, called directly *)

\* faulty variant: an identity without a tenant id is let through
verify_tenant_access_default_allow(user_info, tenant_id) ==
    IF user_info.tenant_id.some THEN user_info.tenant_id.v = tenant_id ELSE TRUE

\* user_info.tenant_id.as_ref().map(|id| id == tenant_id).unwrap_or(false)
verify_tenant_access(user_info, tenant_id) ==
    IF user_info.tenant_id.some THEN user_info.tenant_id.v = tenant_id ELSE FALSE

\* the identities validate_keycloak_token builds from the role lists
AccessIdentities ==
    {ProdUserInfo(Token("jwt", "RS256", None, "k1", Now + 1, GoodIss, GoodAud, email, ra)) :
        email \in {None, Some("test@example.com")}, ra \in RealmAccesses}

\* tenant ids a caller asks about: those the roles name, one that keeps a
\* prefix, and the empty string
AccessTenantIds == {<<"acme">>, <<"b">>, <<"x">>, <<"tenant_", "x">>, <<>>}

InitAccess ==
    /\ cfgSetting = "unset"
    /\ config = LoadKeycloakConfig(cfgSetting)
    /\ stack = "router"
    /\ realmOf = [r \in Reqs |-> Realm]
    /\ req = [r \in Reqs |-> Request(NoAuthHeader, NoHeader, NoHeader, "")]
    /\ idpKeys = IdpWith(Realm, Jwks(<<>>))
    /\ cache = [k \in CacheKeys |-> None]
    /\ InitLocals(Reqs)
    /\ \E u \in AccessIdentities, t \in AccessTenantIds :
          access = Some([user_info |-> u, tenant_id |-> t, result |-> None])

\* state.verify_tenant_access(&user_info, tenant_id).await
VerifyTenantAccess ==
    /\ access.some
    /\ access.v.result = None
    /\ access' = Some([access.v EXCEPT
                          !.result = Some(verify_tenant_access(access.v.user_info, access.v.tenant_id))])
    /\ UNCHANGED <<cfgSetting, config, stack, realmOf, req, pc, cache, idpKeys, httpResponse,
                   fetched, jwksUsed, decodingKey, mode, authResult, forwarded, lookupResult,
                   resp, ops, metrics>>

NextAccess == VerifyTenantAccess

SpecAccess == InitAccess /\ [][NextAccess]_vars

-----------------------------------------------------------------------------
(* Vocabulary of the properties *)

Done(r) == pc[r] = "done"

\* the next handler has been invoked for r
DownstreamInvoked(r) == ops[r].next > 0

Rejected(r, status) ==
    /\ Done(r)
    /\ resp[r].some
    /\ resp[r].v.status = status
    /\ resp[r].v.by = "gateway"
    /\ ~DownstreamInvoked(r)
    /\ ~forwarded[r].some

CarriesBearer(rq) == rq.auth.kind = "text" /\ rq.auth.prefix = "Bearer "

\* the failing verifier step of section 4.3 / the get_jwks failure of 4.1, 4.2
\* behind an error of validate_keycloak_token
ErrorKind(e) ==
    CASE e.err \in {"Redis connection failed", "Redis get failed", "Failed to cache JWKS"}
            -> "CacheUnavailable"
      [] e.err \in {"Failed to fetch JWKS", "Failed to parse JWKS"} -> "FetchError"
      [] e.err = "Failed to decode token header" -> "MalformedToken"
      [] e.err \in {"No key found with kid", "No keys found in JWKS",
                    "Failed to create decoding key"} -> "UnknownKey"
      [] e.cause \in {"InvalidToken", "Json", "MissingRequiredClaim"} -> "MalformedToken"
      [] e.cause \in {"InvalidAlgorithm", "InvalidSignature"} -> "InvalidSignature"
      [] e.cause = "ExpiredSignature" -> "Expired"
      [] e.cause = "InvalidIssuer" -> "IssuerMismatch"
      [] e.cause = "InvalidAudience" -> "AudienceMismatch"
      [] OTHER -> "Other"

-----------------------------------------------------------------------------
(* C1 *)

\* C1: the next handler is invoked only for a request that carries a
\* verified identity and an active tenant; there is no state in which
\* downstream runs with an identity but no tenant, or a tenant but no identity.
C1_DownstreamHasIdentityAndTenant ==
    \A r \in DOMAIN pc :
        DownstreamInvoked(r) =>
            /\ forwarded[r].some
            /\ forwarded[r].v.user_info.some
            /\ forwarded[r].v.tenant_ctx.some
            /\ forwarded[r].v.tenant_ctx.v.tenant.is_active

-----------------------------------------------------------------------------
(* C2 *)

\* C2: a request whose Authorization header is absent or yields no bearer
\* token is answered 401 in the first step of auth_middleware: the next
\* handler is never invoked and no validation, cache read or IdP fetch runs.
C2_NoBearerRejectedAtOnce ==
    \A r \in DOMAIN pc :
        (stack = "router" /\ ~CarriesBearer(req[r]) /\ pc[r] # "start") =>
            /\ Rejected(r, "401")
            /\ ops[r] = NoOps
            /\ mode[r] = "none"
            /\ ~authResult[r].some
            /\ ~req[r].user_info.some

C2_Witness ==
    \E r \in DOMAIN pc :
        /\ stack = "router"
        /\ req[r].auth.kind = "absent"
        /\ Rejected(r, "401")

-----------------------------------------------------------------------------
(* C3 *)

\* C3: when validate_keycloak_token fails the gateway answers 401, inserts no
\* UserInfo and never invokes the next handler; the next handler is invoked
\* exactly once, and only when validation succeeded.
C3_FailureNeverForwards ==
    \A r \in DOMAIN pc :
        stack = "router" =>
            /\ (authResult[r].some /\ ~authResult[r].v.ok) =>
                   /\ Rejected(r, "401")
                   /\ ~req[r].user_info.some
            /\ (authResult[r].some /\ authResult[r].v.ok) => ops[r].next = 1
            /\ DownstreamInvoked(r) =>
                   /\ authResult[r].some
                   /\ authResult[r].v.ok
                   /\ ops[r].next = 1

C3_Witness ==
    \E r \in DOMAIN pc :
        /\ authResult[r].some /\ ~authResult[r].v.ok /\ Rejected(r, "401")
        /\ ErrorKind(authResult[r].v) = "InvalidSignature"

-----------------------------------------------------------------------------
(* C4 *)

\* C4: every token whose expiry has passed is refused and the request
\* answered 401, in test mode and in production mode alike, whatever its
\* signature: no leeway admits it.  (Stated for an expiry strictly before the
\* clock reading of a token whose issuer and audience are in order; at
\* exp = Now the library's test exp < now - leeway admits the token in either
\* mode.)
C4_ExpiredAlwaysRejected ==
    \A r \in DOMAIN pc :
        (/\ stack = "router"
         /\ CarriesBearer(req[r])
         /\ req[r].auth.token.exp < Now
         /\ req[r].auth.token.iss = GoodIss
         /\ req[r].auth.token.aud = GoodAud
         /\ authResult[r].some) =>
            /\ ~authResult[r].v.ok
            /\ Rejected(r, "401")

-----------------------------------------------------------------------------
(* C5 *)

\* C5: in test mode validation touches neither the cache store nor the IdP,
\* and its outcome does not depend on the issuer and audience claims: the
\* token with any other issuer and audience (or none) gets the same verdict.
C5_TestModeIgnoresIssuerAudience ==
    \A r \in DOMAIN pc :
        (mode[r] = "test" /\ authResult[r].some) =>
            /\ ops[r].redis_get = 0
            /\ ops[r].fetch = 0
            /\ \A iss \in IssValues, aud \in AudValues :
                  ValidateTestMode([req[r].auth.token EXCEPT !.iss = iss, !.aud = aud]).ok
                      = authResult[r].v.ok

-----------------------------------------------------------------------------
(* C6 *)

ExpectedMode(setting) == IF setting = "false" THEN "test" ELSE "production"

\* C6: the verification mode of a request is fixed by the configured
\* keycloak.verify_token alone, whatever the request carries, and an unset
\* flag means production verification.
C6_ModeFromConfigurationOnly ==
    \A r \in DOMAIN pc :
        mode[r] # "none" =>
            /\ mode[r] = ExpectedMode(cfgSetting)
            /\ mode[r] = "test" => (ops[r].redis_get = 0 /\ ~jwksUsed[r].some)
            /\ (mode[r] = "production" /\ authResult[r].some /\ authResult[r].v.ok)
                   => jwksUsed[r].some

\* a request that test mode would accept (HS256, signed with the test secret)
\* is verified in production mode, and refused, when the flag is unset
C6_Witness ==
    \E r \in DOMAIN pc :
        /\ cfgSetting = "unset"
        /\ mode[r] = "production"
        /\ req[r].auth.token.alg = "HS256"
        /\ req[r].auth.token.signer = TEST_KEY
        /\ req[r].auth.token.form = "jwt"
        /\ Rejected(r, "401")

-----------------------------------------------------------------------------
(* C7 *)

TokenOf(r) == req[r].auth.token
KeysOf(r) == jwksUsed[r].v.keys

\* the decoding key was built from this key-set entry
BuiltFrom(dk, entry) ==
    IF entry.n = BadModulus
    THEN ~dk.ok /\ dk.err = "Failed to create decoding key"
    ELSE dk.ok /\ dk.v.material = entry.n /\ dk.v.family = "Rsa"

\* C7: with a key-id in the token header the first key-set entry of that kid
\* is selected, and selection fails (UnknownKey, no fallback) when there is
\* none; without a key-id the first entry is selected; an empty key set
\* always fails selection.
C7_KeySelection ==
    \A r \in DOMAIN pc :
        (decodingKey[r].some /\ TokenOf(r).form # "garbage") =>
            LET K == KeysOf(r)
                t == TokenOf(r)
                dk == decodingKey[r].v
                sameKid == {i \in 1..Len(K) : t.kid.some /\ K[i].kid = t.kid.v}
            IN  /\ Len(K) = 0 => (~dk.ok /\ ErrorKind(dk) = "UnknownKey")
                /\ (t.kid.some /\ sameKid = {}) =>
                       (~dk.ok /\ dk.err = "No key found with kid"
                               /\ ErrorKind(dk) = "UnknownKey")
                /\ (t.kid.some /\ sameKid # {}) =>
                       \E i \in sameKid : (\A j \in sameKid : i <= j) /\ BuiltFrom(dk, K[i])
                /\ (~t.kid.some /\ Len(K) > 0) => BuiltFrom(dk, K[1])
                /\ ~dk.ok => (authResult[r] = Some(dk) /\ Rejected(r, "401"))

\* a token naming a kid that a non-empty key set does not hold is refused
C7_Witness ==
    \E r \in DOMAIN pc :
        /\ decodingKey[r].some
        /\ TokenOf(r).form = "jwt"
        /\ TokenOf(r).kid.some
        /\ Len(KeysOf(r)) > 0
        /\ \A i \in 1..Len(KeysOf(r)) : KeysOf(r)[i].kid # TokenOf(r).kid.v
        /\ \E i \in 1..Len(KeysOf(r)) : KeysOf(r)[i].n = TokenOf(r).signer
        /\ Rejected(r, "401")

-----------------------------------------------------------------------------
(* C8 *)

\* C8: production mode accepts a token only if its issuer is the configured
\* issuer and its audience the configured client id; a token without an
\* issuer or without an audience claim is not accepted.  (Stated for the
\* tokens whose expiry lies in the future; the expiry check is the subject
\* of C4.)
C8_ProductionChecksIssuerAudience ==
    \A r \in DOMAIN pc :
        (/\ mode[r] = "production"
         /\ authResult[r].some
         /\ authResult[r].v.ok
         /\ TokenOf(r).exp > Now) =>
            /\ TokenOf(r).iss = Some(IssuerOf(config))
            /\ TokenOf(r).aud = Some(config.client_id)

-----------------------------------------------------------------------------
(* C9 *)

SignerInKeySet(t, K) == \E i \in 1..Len(K) : K[i].n = t.signer

\* C9: in production mode a token signed with a key that the key set in use
\* does not hold is refused with UnknownKey or InvalidSignature: UnknownKey
\* when it names a kid without entry, InvalidSignature when it names none and
\* the first entry is tried.
C9_AbsentKeyRejected ==
    \A r \in DOMAIN pc :
        (/\ mode[r] = "production"
         /\ jwksUsed[r].some
         /\ TokenOf(r).form # "garbage"
         /\ ~SignerInKeySet(TokenOf(r), KeysOf(r))) =>
            LET K == KeysOf(r)
                t == TokenOf(r)
            IN  /\ authResult[r].some
                /\ ~authResult[r].v.ok
                /\ ErrorKind(authResult[r].v) \in {"UnknownKey", "InvalidSignature"}
                /\ Rejected(r, "401")
                /\ ~req[r].user_info.some
                /\ (t.kid.some /\ \A i \in 1..Len(K) : K[i].kid # t.kid.v)
                       => ErrorKind(authResult[r].v) = "UnknownKey"
                /\ (~t.kid.some /\ Len(K) > 0 /\ K[1].n # BadModulus)
                       => ErrorKind(authResult[r].v) = "InvalidSignature"

\* a well-formed RS256 token without kid, signed with a key the set lacks,
\* fails the signature check against the first entry
C9_Witness ==
    \E r \in DOMAIN pc :
        /\ mode[r] = "production"
        /\ jwksUsed[r].some
        /\ TokenOf(r).form = "jwt"
        /\ TokenOf(r).alg = "RS256"
        /\ ~TokenOf(r).kid.some
        /\ Len(KeysOf(r)) > 0
        /\ ~SignerInKeySet(TokenOf(r), KeysOf(r))
        /\ authResult[r].some /\ ~authResult[r].v.ok
        /\ authResult[r].v.cause = "InvalidSignature"
        /\ Rejected(r, "401")

-----------------------------------------------------------------------------
(* C10 *)

\* a token whose header, expiry, issuer and audience are in order for the
\* production configuration
ValidToken(t) ==
    /\ t.form = "jwt"
    /\ t.alg = "RS256"
    /\ t.exp > Now
    /\ t.iss = Some(IssuerOf(config))
    /\ t.aud = Some(config.client_id)

\* the identity reflects the claims exactly, and is what was forwarded
IdentityExact(r) ==
    LET t == TokenOf(r)
    IN  /\ authResult[r].some
        /\ authResult[r].v.ok
        /\ authResult[r].v.v.sub = t.sub
        /\ authResult[r].v.v.preferred_username = t.preferred_username
        /\ authResult[r].v.v.email = t.email
        /\ authResult[r].v.v.roles =
               (IF t.realm_access.present THEN t.realm_access.roles ELSE <<>>)
        /\ DownstreamInvoked(r)
        /\ forwarded[r].some
        /\ forwarded[r].v.user_info = Some(authResult[r].v.v)
        /\ req[r].user_info = Some(authResult[r].v.v)

SelectionHitsSigner(t, K) ==
    \E i \in 1..Len(K) :
        /\ K[i].n = t.signer
        /\ t.kid.some => (K[i].kid = t.kid.v /\ \A j \in 1..(i - 1) : K[j].kid # t.kid.v)
        /\ ~t.kid.some => i = 1

-----------------------------------------------------------------------------
(* C11: tenant extraction *)

\* the tenant id the policy derives from a role list: the first role of the
\* form tenant_<id>, with that one prefix removed
FirstTenantRole(ra) ==
    LET hits == {i \in 1..Len(ra.roles) : Len(ra.roles[i]) >= 1 /\ ra.roles[i][1] = "tenant_"}
    IN  IF ra.present /\ hits # {}
        THEN Some(Tail(ra.roles[CHOOSE i \in hits : \A j \in hits : i <= j]))
        ELSE None

\* C11: in both modes the identity's tenant_id is the first tenant_<id> role
\* in the roles' order with its single leading "tenant_" removed, and None
\* when no role has the prefix.
C11_TenantFromFirstTenantRole ==
    \A r \in DOMAIN pc :
        (authResult[r].some /\ authResult[r].v.ok) =>
            authResult[r].v.v.tenant_id = FirstTenantRole(TokenOf(r).realm_access)

-----------------------------------------------------------------------------
(* C12: a cached key set is used without a fetch *)

\* the entry holds text that deserializes to a key set
Parseable(entry) == entry.some /\ entry.v.value.kind = "json"

\* the step in which get(JWKS_CACHE_KEY) returns to r
GetReturns(r) == pc[r] = "redis_get" /\ pc'[r] \notin {"redis_get", "cancelled"}

\* the store did not answer r's get
GetFailed(r) ==
    /\ authResult'[r].some
    /\ ~authResult'[r].v.ok
    /\ authResult'[r].v.err = "Redis get failed"

\* C12: when the store answers the get and holds a parseable key set, get_jwks
\* returns that set and no HTTP call is made for the request; a write-through
\* leaves the fetched set parseable in the store, and a parseable entry stays
\* until its TTL runs out, so validations within the TTL of a write-through
\* do not fetch.
C12_CacheHitSkipsFetch ==
    [][/\ \A r \in DOMAIN pc :
            (GetReturns(r) /\ Parseable(cache[JWKS_CACHE_KEY]) /\ ~GetFailed(r)) =>
                /\ jwksUsed'[r] = Some(from_str(cache[JWKS_CACHE_KEY].v.value).v)
                /\ ops'[r].fetch = 0
                /\ httpResponse'[r] = None
                /\ pc'[r] \in {"next", "done"}
       /\ \A r \in DOMAIN pc :
            (pc[r] = "redis_set" /\ jwksUsed'[r].some) =>
                /\ Parseable(cache'[JWKS_CACHE_KEY])
                /\ from_str(cache'[JWKS_CACHE_KEY].v.value) = Ok(fetched[r].v)
       /\ (Parseable(cache[JWKS_CACHE_KEY]) /\ ~Parseable(cache'[JWKS_CACHE_KEY])) =>
                cache'[JWKS_CACHE_KEY] = None
      ]_vars

\* r1 fetched and wrote through, r2 then verified with the cached set, without
\* a fetch, and was forwarded
C12_Witness ==
    /\ "r2" \in DOMAIN pc
    /\ Done("r1") /\ Done("r2")
    /\ ops["r1"].fetch = 1 /\ ops["r1"].redis_set = 1 /\ jwksUsed["r1"].some
    /\ ops["r2"].redis_get = 1 /\ ops["r2"].fetch = 0 /\ httpResponse["r2"] = None
    /\ jwksUsed["r2"] = jwksUsed["r1"]
    /\ authResult["r2"].v.ok
    /\ DownstreamInvoked("r2")
    /\ Parseable(cache[JWKS_CACHE_KEY])
    /\ from_str(cache[JWKS_CACHE_KEY].v.value).v = jwksUsed["r2"].v

-----------------------------------------------------------------------------
(* C13: a miss is fetched and written through *)

\* C13: when the store answers the get with nothing usable (no entry, or text
\* that does not deserialize), get_jwks goes on to fetch, without failing the
\* request and without returning anything; a fetched set is returned only
\* after it was written, whole, under the key-set key with the configured TTL;
\* and get_jwks returns nothing but a parseable cached set or the set it wrote.
C13_MissFetchesAndWritesThrough ==
    [][\A r \in DOMAIN pc :
          /\ (GetReturns(r) /\ ~Parseable(cache[JWKS_CACHE_KEY]) /\ ~GetFailed(r)) =>
                /\ pc'[r] = "http_fetch"
                /\ authResult'[r] = None
                /\ jwksUsed'[r] = None
          /\ (pc[r] = "http_fetch" /\ pc'[r] \notin {"http_fetch", "cancelled"}) =>
                /\ ops'[r].fetch = ops[r].fetch + 1
                /\ jwksUsed'[r] = None
                /\ cache' = cache
                /\ fetched'[r].some => pc'[r] = "redis_set"
          /\ (pc[r] = "redis_set" /\ jwksUsed'[r].some) =>
                /\ jwksUsed'[r] = fetched[r]
                /\ cache'[JWKS_CACHE_KEY].some
                /\ from_str(cache'[JWKS_CACHE_KEY].v.value) = Ok(fetched[r].v)
                /\ cache'[JWKS_CACHE_KEY].v.ttl = ConfigOf(r).public_key_cache_ttl
          /\ (jwksUsed[r] = None /\ jwksUsed'[r].some) =>
                \/ pc[r] = "redis_get" /\ Parseable(cache[JWKS_CACHE_KEY])
                \/ pc[r] = "redis_set"
      ]_vars

\* a request fetched a key set and wrote it through with a TTL that is not the
\* default, then verified with it
C13_Witness ==
    \E r \in DOMAIN pc :
        /\ Done(r)
        /\ ops[r].redis_get = 1 /\ ops[r].fetch = 1 /\ ops[r].redis_set = 1
        /\ jwksUsed[r].some
        /\ jwksUsed[r] = fetched[r]
        /\ config.public_key_cache_ttl # default_public_key_cache_ttl
        /\ cache[JWKS_CACHE_KEY] =
              Some([value |-> to_string(fetched[r].v), ttl |-> config.public_key_cache_ttl])
        /\ DownstreamInvoked(r)

-----------------------------------------------------------------------------
(* C14: cache-store failures *)

\* C14: a failure of the cache store (connection, get, or write-through set)
\* never fails the request: no request is answered with the error of a store
\* operation.
C14_StoreFailureRecovered ==
    \A r \in DOMAIN pc :
        (authResult[r].some /\ ~authResult[r].v.ok) =>
            authResult[r].v.err \notin
                {"Redis connection failed", "Redis get failed", "Failed to cache JWKS"}

-----------------------------------------------------------------------------
(* C15: failed fetches *)

\* the IdP's answer is one the fetch must fail on: no answer, a status that is
\* not 2xx, or a body that is not a key set
FailedResponse(response) ==
    \/ ~response.sent
    \/ response.status # "200"
    \/ response.body.kind # "json"

\* C15: on network failure, on any non-2xx response whatever its body, and on a
\* malformed payload the fetch fails with FetchError: nothing is written to
\* the cache for the request, the fetch is not repeated, and no key set taken
\* from that response is used for verification.
C15_FailedFetchIsRejected ==
    \A r \in DOMAIN pc :
        (httpResponse[r].some /\ FailedResponse(httpResponse[r].v)) =>
            /\ authResult[r].some
            /\ ~authResult[r].v.ok
            /\ ErrorKind(authResult[r].v) = "FetchError"
            /\ fetched[r] = None
            /\ jwksUsed[r] = None
            /\ ops[r].redis_set = 0
            /\ ops[r].fetch = 1

-----------------------------------------------------------------------------
(* C16: concurrent refreshes *)

\* the key sets the IdP has published, each a complete snapshot
Snapshots == {BeforeRotation, AfterRotation, OtherRealmKeys}

\* r missed the cache, fetched and wrote its key set through
Refreshed(r) == ops[r].redis_set = 1 /\ jwksUsed[r].some

\* C16: whatever the interleaving of requests that refresh the key set, the
\* cache entry is, in full, the set one of them fetched; every request that
\* verified did so against a complete key set, a refreshing request against
\* the one it fetched; and the outcome of a request is the verification of its
\* token against that set, whatever the other requests did.
C16_LastWriterWins ==
    /\ \A r \in DOMAIN pc :
          jwksUsed[r].some =>
              /\ jwksUsed[r].v \in Snapshots
              /\ authResult[r] =
                    Some(ValidateProduction(ConfigOf(r), jwksUsed[r].v, TokenOf(r)))
    /\ \A r \in DOMAIN pc : Refreshed(r) => jwksUsed[r] = fetched[r]
    /\ ((\E r \in DOMAIN pc : Refreshed(r)) /\ cache[JWKS_CACHE_KEY].some) =>
          \E r \in DOMAIN pc :
              /\ Refreshed(r)
              /\ cache[JWKS_CACHE_KEY] =
                    Some([value |-> to_string(fetched[r].v),
                          ttl |-> ConfigOf(r).public_key_cache_ttl])

\* both requests missed, fetched different snapshots around a rotation, wrote
\* them through and were forwarded; the cache holds one of the two
C16_Witness ==
    /\ "r2" \in DOMAIN pc
    /\ realmOf["r1"] = realmOf["r2"]
    /\ Done("r1") /\ Done("r2")
    /\ Refreshed("r1") /\ Refreshed("r2")
    /\ fetched["r1"] # fetched["r2"]
    /\ authResult["r1"].v.ok /\ authResult["r2"].v.ok
    /\ DownstreamInvoked("r1") /\ DownstreamInvoked("r2")
    /\ cache[JWKS_CACHE_KEY].some
    /\ from_str(cache[JWKS_CACHE_KEY].v.value).v \in {fetched["r1"].v, fetched["r2"].v}

-----------------------------------------------------------------------------
(* C17: the cache entry and the realm *)

\* C17: the cached key set is keyed by realm: a key set that the gateway of
\* one realm fetched is never returned by get_jwks, from the cache, to a
\* gateway configured with another realm.
C17_KeySetKeyedByRealm ==
    \A r, s \in DOMAIN pc :
        (/\ realmOf[r] # realmOf[s]
         /\ Refreshed(s)
         /\ jwksUsed[r].some
         /\ ops[r].fetch = 0) =>
            jwksUsed[r].v # fetched[s].v

-----------------------------------------------------------------------------
(* C18: tenant resolution order *)

\* the request carries an explicit tenant signal: the X-Tenant-ID header, or
\* a tenant id derived from the identity
HasExplicitTenant(rq) ==
    \/ rq.tenant_header.kind # "absent"
    \/ rq.user_info.some /\ rq.user_info.v.tenant_id.some

\* C18: at most one lookup is made per request; with an explicit tenant
\* signal (header or identity-derived id) the lookup is find_by_id and
\* find_by_domain is never called, whatever find_by_id answers; find_by_domain
\* is called only when there is no explicit tenant id.
C18_ExplicitSignalFirst ==
    \A r \in DOMAIN pc :
        /\ ops[r].lookup <= 1
        /\ ops[r].find_by_id + ops[r].find_by_domain = ops[r].lookup
        /\ HasExplicitTenant(req[r]) => ops[r].find_by_domain = 0
        /\ (HasExplicitTenant(req[r]) /\ ops[r].lookup = 1) => ops[r].find_by_id = 1

-----------------------------------------------------------------------------
(* C19, C20: unknown and inactive tenants *)

\* the lookup for r answered that no tenant matches
LookupNotFound(r) ==
    /\ lookupResult[r].some
    /\ ~lookupResult[r].v.ok
    /\ lookupResult[r].v.err = "Tenant not found"

\* C19: on every tenant-resolution path (TenantMiddleware and the TenantInfo
\* extractor), when the lookup reports that no matching tenant exists the
\* request is answered 404 and the downstream handler is not invoked.
C19_UnknownTenantIs404 ==
    \A r \in DOMAIN pc :
        LookupNotFound(r) =>
            /\ Rejected(r, "404")
            /\ ~DownstreamInvoked(r)

\* the lookup for r resolved a tenant that is not active
ResolvedInactive(r) ==
    /\ lookupResult[r].some
    /\ lookupResult[r].v.ok
    /\ ~lookupResult[r].v.v.is_active

\* C20: on every tenant-resolution path, when the resolved tenant is inactive
\* the request is answered 403, no tenant context is attached and downstream
\* is not invoked; whenever downstream runs behind a tenant stage, the
\* attached tenant context holds an active tenant.
C20_InactiveTenantIs403 ==
    \A r \in DOMAIN pc :
        /\ ResolvedInactive(r) =>
              /\ Rejected(r, "403")
              /\ req[r].tenant_ctx = None
              /\ ~DownstreamInvoked(r)
        /\ (stack # "router" /\ DownstreamInvoked(r)) =>
              /\ forwarded[r].v.tenant_ctx.some
              /\ forwarded[r].v.tenant_ctx.v.tenant.is_active

-----------------------------------------------------------------------------
(* C21: missing or malformed tenant signal *)

\* the request supplies no tenant signal at all: no X-Tenant-ID header, no
\* identity-derived tenant id, and no Host header that can be read
NoTenantSignal(rq) ==
    /\ rq.tenant_header.kind = "absent"
    /\ ~(rq.user_info.some /\ rq.user_info.v.tenant_id.some)
    /\ rq.host.kind # "text"

\* the supplied tenant id is not well-formed: unreadable bytes, or text that
\* is no UUID
MalformedTenantId(rq) ==
    \/ rq.tenant_header.kind = "opaque"
    \/ rq.tenant_header.kind = "text" /\ ~IsUuid(rq.tenant_header.v)

\* C21: on the tenant stages, a request with no tenant signal, or with a
\* tenant id that is not well-formed, is rejected with 400 without a lookup
\* call and without invoking downstream.
C21_MissingTenantIs400 ==
    \A r \in DOMAIN pc :
        (/\ stack # "router"
         /\ pc[r] # "start"
         /\ NoTenantSignal(req[r]) \/ MalformedTenantId(req[r])) =>
            /\ ops[r].lookup = 0
            /\ ~DownstreamInvoked(r)
            /\ Done(r) => Rejected(r, "400")

-----------------------------------------------------------------------------
(* C22: the tenant stage and the identity *)

\* C22: a request that reaches tenant resolution without a UserInfo is
\* rejected with 401; when the identity names a tenant, the tenant resolved is
\* that one, not one chosen by a request header, and if it is inactive the
\* response is 403.
C22_TenantStageConsumesIdentity ==
    \A r \in DOMAIN pc :
        stack = "tenant_layer" =>
            /\ (req[r].user_info = None /\ pc[r] # "start") =>
                  /\ Rejected(r, "401")
                  /\ ops[r].lookup = 0
            /\ (/\ req[r].user_info.some
                /\ req[r].user_info.v.tenant_id.some
                /\ lookupResult[r].some
                /\ lookupResult[r].v.ok) =>
                  /\ <<lookupResult[r].v.v.id>> = req[r].user_info.v.tenant_id.v
                  /\ ~lookupResult[r].v.v.is_active => Rejected(r, "403")

-----------------------------------------------------------------------------
(* C23: metrics *)

\* the requests auth_middleware has finished handling
Handled == {r \in DOMAIN pc : stack = "router" /\ Done(r)}

\* the requests that were authenticated and forwarded
Authenticated == {r \in Handled : authResult[r].some /\ authResult[r].v.ok /\ DownstreamInvoked(r)}

\* C23: for every request auth_middleware handles, on whatever path, exactly
\* one attempt is counted and one duration sampled, once the pipeline has
\* finished; the attempt counts as success exactly when the request was
\* authenticated and forwarded, and as failure, tagged with the failure kind,
\* otherwise.
C23_OneMetricPerRequest ==
    /\ metrics.success + metrics.failure = Cardinality(Handled)
    /\ metrics.samples = Cardinality(Handled)
    /\ metrics.success = Cardinality(Authenticated)
    /\ metrics.failure > 0 => "kind" \in metrics.label_names

-----------------------------------------------------------------------------
(* C24: rejection bodies *)

\* the gateway rejected r
RejectedByGateway(r) == Done(r) /\ resp[r].some /\ resp[r].v.by = "gateway"

\* C24: the body of a rejection depends only on its status: two requests
\* rejected with the same status get the same body, whatever the detailed
\* error kind or context of each.
C24_GenericRejectionBody ==
    \A r, s \in DOMAIN pc :
        (/\ RejectedByGateway(r)
         /\ RejectedByGateway(s)
         /\ resp[r].v.status = resp[s].v.status) =>
            resp[r].v.body = resp[s].v.body

-----------------------------------------------------------------------------
(* C25: cancellation *)

-----------------------------------------------------------------------------
(* C26: termination *)

\* the request has ended: answered, or dropped by its client
Terminated(r) == pc[r] \in {"done", "cancelled", "cancelled_downstream"}

\* C26: under fair scheduling, and whatever the IdP does, every request that
\* enters the gateway eventually ends, forwarded or rejected.
C26_EveryRequestTerminates == \A r \in Reqs : <>Terminated(r)

-----------------------------------------------------------------------------
(* C27: the cached key set reads back as it was fetched *)

\* the two key sets hold the same entries, field by field, in the same order
SameKeyEntries(a, b) ==
    /\ Len(a.keys) = Len(b.keys)
    /\ \A i \in 1..Len(a.keys) :
          /\ a.keys[i].kid = b.keys[i].kid
          /\ a.keys[i].kty = b.keys[i].kty
          /\ a.keys[i].n = b.keys[i].n
          /\ a.keys[i].e = b.keys[i].e

\* the key ids a token header can name, or none
KidChoices == {None} \cup {Some(k) : k \in KeyIds}

-----------------------------------------------------------------------------
(* C28: verify_tenant_access *)

\* C28: the call answers true exactly when the identity carries a tenant id
\* and it equals the tenant asked about; an identity without a tenant id is
\* denied; and an identity that is granted one tenant is granted no other.
C28_TenantAccessIsExactMatch ==
    (access.some /\ access.v.result.some) =>
        LET u == access.v.user_info
            t == access.v.tenant_id
            granted == access.v.result.v
        IN  /\ granted <=> (u.tenant_id.some /\ u.tenant_id.v = t)
            /\ u.tenant_id = None => ~granted
            /\ granted =>
                  \A t2 \in AccessTenantIds \ {t} : ~verify_tenant_access(u, t2)

\* an identity whose first tenant role names "acme", and which holds a second
\* tenant role, asked about "acme" and was granted it
C28_Witness ==
    /\ access.some
    /\ access.v.result.some
    /\ access.v.user_info.roles = <<RoleTenantAcme, RoleTenantB>>
    /\ access.v.user_info.tenant_id = Some(<<"acme">>)
    /\ access.v.tenant_id = <<"acme">>
    /\ access.v.result.v

-----------------------------------------------------------------------------
(* C29: the order of the verifier's steps *)

\* the token has three well-formed segments, so its header can be parsed
HeaderParses(t) == t.form # "garbage"

\* C29: a structurally invalid token presented in production mode is rejected
\* with MalformedToken at header parsing, the first step: no key set is
\* fetched for it (failures of the cache store set aside).
C29_MalformedRejectedAtHeaderParsing ==
    \A r \in DOMAIN pc :
        (/\ mode[r] = "production"
         /\ Done(r)
         /\ ~HeaderParses(TokenOf(r))
         /\ authResult[r].some
         /\ ErrorKind(authResult[r].v) # "CacheUnavailable") =>
            /\ ~authResult[r].v.ok
            /\ ErrorKind(authResult[r].v) = "MalformedToken"
            /\ ops[r].fetch = 0

-----------------------------------------------------------------------------
(* C30: what auth_middleware hands to the next handler *)

\* the step in which auth_middleware hands r to the next handler
Forwards(r) == stack = "router" /\ forwarded[r] = None /\ forwarded'[r].some

\* the step in which auth_middleware answers r itself
Rejects(r) == stack = "router" /\ resp[r] = None /\ resp'[r].some /\ resp'[r].v.by = "gateway"

\* C30: the request handed on has the method, URI and headers of the inbound
\* request, its extensions plus the UserInfo validation returned, and an empty
\* body, whatever body came in; until then the inbound request is untouched;
\* a rejected request is not handed on.
C30_ForwardedRequestFrame ==
    [][\A r \in DOMAIN pc :
          /\ Forwards(r) =>
                /\ authResult'[r].some
                /\ authResult'[r].v.ok
                /\ forwarded'[r].v.method = req[r].method
                /\ forwarded'[r].v.uri = req[r].uri
                /\ forwarded'[r].v.auth = req[r].auth
                /\ forwarded'[r].v.tenant_header = req[r].tenant_header
                /\ forwarded'[r].v.host = req[r].host
                /\ forwarded'[r].v.tenant_ctx = req[r].tenant_ctx
                /\ req[r].user_info = None
                /\ forwarded'[r].v.user_info = Some(authResult'[r].v.v)
                /\ forwarded'[r].v.body = ""
          /\ (stack = "router" /\ forwarded'[r] = None) => req'[r] = req[r]
          /\ Rejects(r) => (forwarded'[r] = None /\ ops'[r].next = 0)
      ]_vars

\* a request that came in with a body was authenticated and handed on without it
C30_Witness ==
    \E r \in DOMAIN pc :
        /\ stack = "router"
        /\ Done(r)
        /\ forwarded[r].some
        /\ req[r].body = "payload"
        /\ forwarded[r].v.body = ""
        /\ forwarded[r].v.user_info = Some(authResult[r].v.v)
        /\ forwarded[r].v.auth = req[r].auth

====
